---- MODULE Spec2Model ----
(***************************************************************************)
(* Model of src/authorization.js: the OAuth strategy callback built by     *)
(* makeStrategyCallback.  One authentication attempt runs findUser and     *)
(* checkAuthorization under async.parallel and then syncUserModel.  Every  *)
(* action below is one callback of the program: the strategy callback      *)
(* itself, or the reply of one GitHub API / account store call, together   *)
(* with every callback it invokes synchronously.                           *)
(***************************************************************************)
EXTENDS Integers, Sequences, FiniteSets, TLC

\* ---- bounds of the model ----
NumAttempts == 2      \* authentication attempts, all may run concurrently
MaxEmails == 2        \* length of the list gh.emails() answers
MaxAccounts == 2      \* accounts in the store when the process starts

Attempts == 1 .. NumAttempts
Roles == {"access", "admin"}

\* ---- values ----
Null == "null"                  \* JavaScript null / undefined
NoErr == "none"                 \* a callback's err argument when there is none
TransportError == "TransportError"
NoVerifiedEmail == "NoVerifiedEmail"
AmbiguousAccount == "AmbiguousAccount"
AuthorizationDenied == "AuthorizationDenied"

UNAUTHORIZED == "UNAUTHORIZED"
ACCESS == "ACCESS"
ADMIN == "ADMIN"
Unset == "unset"                \* account_level of a User never synchronized

RawEmails == {"A", "b"}         \* addresses as GitHub spells them
ProfileIds == {"g1", "g2"}      \* gh.profile.id
TeamNames == {"team"}           \* a configured team name
NoName == ""                    \* config.<role>TeamName not provided

\* The id GitHub gives the team of a role (stable for the organization).
GitHubTeamId(teamType) == IF teamType = "access" THEN "T1" ELSE "T2"

\* String.prototype.toLowerCase on the addresses of the model.
toLowerCase(s) == CASE s = "A" -> "a" [] s = "B" -> "b" [] OTHER -> s

EmailEntries == [email : RawEmails, verified : BOOLEAN, primary : BOOLEAN]
\* The lists gh.emails may answer: GitHub lists an address once.
EmailLists ==
    {l \in UNION {[1 .. n -> EmailEntries] : n \in 0 .. MaxEmails} :
        \A i, j \in DOMAIN l : i # j => l[i].email # l[j].email}

Range(s) == {s[i] : i \in DOMAIN s}

\* A linked identity (an element of user.accounts).
Identity(pid, token) == [provider |-> "github", id |-> pid, accessToken |-> token]

\* The document of a User: idx is its place in the store (0: never saved).
NoUser == [idx |-> -1, email |-> "", account_level |-> Unset, accounts |-> <<>>]
NewUser(primary) == [idx |-> 0, email |-> primary, account_level |-> Unset, accounts |-> <<>>]

\* ---- state ----
VARIABLES config,    \* config.accessTeamName, config.adminTeamName
          teamIds,   \* the team id cache of makeStrategyCallback
          store,     \* the User collection, a sequence of documents
          store0,    \* the User collection as it was when the process started
          att,       \* per attempt: the closures and pending calls of one run
          arrivals   \* profile ids of the authentications yet to arrive

vars == <<config, teamIds, store, store0, att, arrivals>>

Idle == [pc |-> "idle", profile |-> Null,
         \* outer async.parallel {user, authorization}
         tFired |-> FALSE, tDone |-> 0, rUser |-> NoUser, rAuth |-> Null,
         \* the completion callback of the strategy
         cbCount |-> 0, cbErr |-> NoErr, cbUser |-> NoUser,
         \* findUser
         uPc |-> "idle", gotEmails |-> FALSE, noVerified |-> FALSE,
         addresses |-> <<>>, primary |-> Null, gotResults |-> FALSE,
         results |-> <<>>, user |-> NoUser, uErr |-> NoErr,   \* user: what findUser returned
         \* checkAuthorization
         aPc |-> "idle", orgAns |-> <<>>,
         ePc |-> [t \in Roles |-> "idle"], eAns |-> [t \in Roles |-> Null],
         iFired |-> FALSE, iDone |-> 0, idsSeen |-> FALSE,
         resolved |-> [t \in Roles |-> Null],
         bPc |-> [t \in Roles |-> "idle"], bArg |-> [t \in Roles |-> Null],
         bAns |-> [t \in Roles |-> Null],
         mFired |-> FALSE, mDone |-> 0, mRes |-> [t \in Roles |-> FALSE],
         level |-> Null, aErr |-> NoErr,
         \* syncUserModel
         doc |-> NoUser, pushed |-> FALSE,
         \* calls issued to the collaborators
         nFind |-> 0, nUserSave |-> 0, nSyncSave |-> 0, nOrg |-> 0,
         nFindTeam |-> [t \in Roles |-> 0], nBelongs |-> [t \in Roles |-> 0]]

\* ---- the completion callback and syncUserModel -------------------------

\* callback(err, user) of the strategy (the 4th argument at line 217).
Callback(r, err, user) ==
    [r EXCEPT !.pc = "done", !.cbCount = @ + 1, !.cbErr = err, !.cbUser = user]

\* user.account(provider, id): the linked identity of the document, if any.
HasAccount(user, provider, id) ==
    \E i \in DOMAIN user.accounts :
        user.accounts[i].provider = provider /\ user.accounts[i].id = id

\* syncUserModel linking the identity without looking for an existing one.
syncUserModelAlwaysPush(r, a, user, authorization) ==
    IF user = NoUser \/ authorization = UNAUTHORIZED
    THEN Callback(r, NoErr, NoUser)
    ELSE LET u1 == [user EXCEPT !.account_level = authorization]
             u2 == [u1 EXCEPT !.accounts = Append(@, Identity(r.profile, a))]
         IN [r EXCEPT !.pc = "sync", !.doc = u2, !.pushed = TRUE,
                      !.nSyncSave = @ + 1]

\* syncUserModel never lowering the level of an administrator.
syncUserModelNoDemote(r, a, user, authorization) ==
    IF user = NoUser \/ authorization = UNAUTHORIZED
    THEN Callback(r, NoErr, NoUser)
    ELSE LET push == ~HasAccount(user, "github", r.profile)
             u1 == IF user.account_level = ADMIN THEN user
                   ELSE [user EXCEPT !.account_level = authorization]
             u2 == IF push
                   THEN [u1 EXCEPT !.accounts = Append(@, Identity(r.profile, a))]
                   ELSE u1
         IN [r EXCEPT !.pc = "sync", !.doc = u2, !.pushed = push,
                      !.nSyncSave = @ + 1]

\* syncUserModel up to user.save (lines 186-211); a is the access token.
syncUserModel(r, a, user, authorization) ==
    IF user = NoUser \/ authorization = UNAUTHORIZED
    THEN Callback(r, NoErr, NoUser)
    ELSE LET push == ~HasAccount(user, "github", r.profile)
             u1 == [user EXCEPT !.account_level = authorization]
             u2 == IF push
                   THEN [u1 EXCEPT !.accounts = Append(@, Identity(r.profile, a))]
                   ELSE u1
         IN [r EXCEPT !.pc = "sync", !.doc = u2, !.pushed = push,
                      !.nSyncSave = @ + 1]

\* Merged without the rejection of an unauthorized caller.
MergedNoDeny(r, a, err) ==
    IF err # NoErr THEN Callback(r, err, NoUser)
    ELSE syncUserModel(r, a, r.rUser, r.rAuth)

\* The final callback of the outer async.parallel (lines 223-230).
Merged(r, a, err) ==
    IF err # NoErr THEN Callback(r, err, NoUser)
    ELSE IF r.rAuth = UNAUTHORIZED THEN Callback(r, AuthorizationDenied, NoUser)
    ELSE syncUserModel(r, a, r.rUser, r.rAuth)

\* UserTask passing every error on, also after the final callback fired.
UserTaskTwice(r, a, err, user) ==
    IF err # NoErr THEN Merged([r EXCEPT !.tFired = TRUE], a, err)
    ELSE IF r.tFired THEN r
    ELSE LET r1 == [r EXCEPT !.tDone = @ + 1, !.rUser = user]
         IN IF r1.tDone = 2 THEN Merged([r1 EXCEPT !.tFired = TRUE], a, NoErr)
            ELSE r1

\* The user task of the outer async.parallel calls back: the first error
\* fires the final callback, later calls are ignored; without an error the
\* final callback fires once both tasks have delivered.
UserTask(r, a, err, user) ==
    IF r.tFired THEN r
    ELSE IF err # NoErr THEN Merged([r EXCEPT !.tFired = TRUE], a, err)
    ELSE LET r1 == [r EXCEPT !.tDone = @ + 1, !.rUser = user]
         IN IF r1.tDone = 2 THEN Merged([r1 EXCEPT !.tFired = TRUE], a, NoErr)
            ELSE r1

\* AuthTask passing every error on, also after the final callback fired.
AuthTaskLate(r, a, err, authorization) ==
    IF err # NoErr THEN Merged([r EXCEPT !.tFired = TRUE], a, err)
    ELSE IF r.tFired THEN r
    ELSE LET r1 == [r EXCEPT !.tDone = @ + 1, !.rAuth = authorization]
         IN IF r1.tDone = 2 THEN Merged([r1 EXCEPT !.tFired = TRUE], a, NoErr)
            ELSE r1

\* The authorization task of the outer async.parallel calls back.
AuthTask(r, a, err, authorization) ==
    IF r.tFired THEN r
    ELSE IF err # NoErr THEN Merged([r EXCEPT !.tFired = TRUE], a, err)
    ELSE LET r1 == [r EXCEPT !.tDone = @ + 1, !.rAuth = authorization]
         IN IF r1.tDone = 2 THEN Merged([r1 EXCEPT !.tFired = TRUE], a, NoErr)
            ELSE r1

\* ---- findUser ----------------------------------------------------------

\* The callback findUser was given: the user task of the outer parallel.
UserDone(r, a, err, user) ==
    UserTask([r EXCEPT !.uPc = "done", !.uErr = err,
                       !.user = IF err = NoErr THEN user ELSE @], a, err, user)

\* emailsFromGitHub without the test for an empty list of verified entries.
emailsFromGitHubNoCheck(emails) ==
    LET verified == SelectSeq(emails, LAMBDA e : e.verified)
        addresses == [i \in 1 .. Len(verified) |-> toLowerCase(verified[i].email)]
        flagged == {i \in 1 .. Len(verified) : verified[i].primary}
        first == CHOOSE i \in flagged : \A j \in flagged : i <= j
    IN [err |-> NoErr, addresses |-> addresses,
        primary |-> IF flagged # {} THEN addresses[first]
                    ELSE IF Len(verified) = 0 THEN Null ELSE addresses[1]]

\* emailsFromGitHub on the list gh.emails answered (lines 29-58).
emailsFromGitHub(emails) ==
    LET verified == SelectSeq(emails, LAMBDA e : e.verified)
        addresses == [i \in 1 .. Len(verified) |-> toLowerCase(verified[i].email)]
        flagged == {i \in 1 .. Len(verified) : verified[i].primary}
        first == CHOOSE i \in flagged : \A j \in flagged : i <= j
    IN IF Len(verified) = 0
       THEN [err |-> NoVerifiedEmail, addresses |-> <<>>, primary |-> Null]
       ELSE [err |-> NoErr, addresses |-> addresses,
             primary |-> IF flagged # {} THEN addresses[first] ELSE addresses[1]]

\* User.find({email: {$in: addresses}}): the matching documents.
Find(st, addresses) ==
    LET idxs == {i \in DOMAIN st : st[i].email \in Range(addresses)}
        n == Cardinality(idxs)
        nth[k \in 1 .. n] ==
            CHOOSE i \in idxs : Cardinality({j \in idxs : j < i}) = k - 1
    IN [k \in 1 .. n |-> [idx |-> nth[k], email |-> st[nth[k]].email,
                          account_level |-> st[nth[k]].account_level,
                          accounts |-> st[nth[k]].accounts]]

\* The callback of gh.emails inside findUser (lines 26-68).
emailsCallback(r, a, err, emails) ==
    IF err # NoErr THEN UserDone(r, a, err, NoUser)
    ELSE LET e == emailsFromGitHub(emails)
             r1 == [r EXCEPT !.gotEmails = TRUE,
                             !.noVerified = \A i \in DOMAIN emails : ~emails[i].verified]
         IN IF e.err # NoErr THEN UserDone(r1, a, e.err, NoUser)
            ELSE [r1 EXCEPT !.uPc = "find", !.addresses = e.addresses,
                            !.primary = e.primary, !.nFind = @ + 1]

\* findCallback naming the new User after the first address.
findCallbackFirstAddress(r, a, err, results) ==
    IF err # NoErr THEN UserDone(r, a, err, NoUser)
    ELSE LET r1 == [r EXCEPT !.gotResults = TRUE, !.results = results]
         IN IF Len(results) > 1 THEN UserDone(r1, a, AmbiguousAccount, NoUser)
            ELSE IF Len(results) = 0
            THEN [r1 EXCEPT !.uPc = "save", !.user = NewUser(r.addresses[1]),
                            !.nUserSave = @ + 1]
            ELSE UserDone(r1, a, NoErr, results[1])

\* findCallback accepting two matches.
findCallbackTwoMatches(r, a, err, results) ==
    IF err # NoErr THEN UserDone(r, a, err, NoUser)
    ELSE LET r1 == [r EXCEPT !.gotResults = TRUE, !.results = results]
         IN IF Len(results) > 2 THEN UserDone(r1, a, AmbiguousAccount, NoUser)
            ELSE IF Len(results) = 0
            THEN [r1 EXCEPT !.uPc = "save", !.user = NewUser(r.primary),
                            !.nUserSave = @ + 1]
            ELSE UserDone(r1, a, NoErr, results[1])

\* findCallback creating a User unless the match is ambiguous.
findCallbackAlwaysCreate(r, a, err, results) ==
    IF err # NoErr THEN UserDone(r, a, err, NoUser)
    ELSE LET r1 == [r EXCEPT !.gotResults = TRUE, !.results = results]
         IN IF Len(results) > 1 THEN UserDone(r1, a, AmbiguousAccount, NoUser)
            ELSE [r1 EXCEPT !.uPc = "save", !.user = NewUser(r.primary),
                            !.nUserSave = @ + 1]

\* The callback of User.find (lines 68-92).
findCallback(r, a, err, results) ==
    IF err # NoErr THEN UserDone(r, a, err, NoUser)
    ELSE LET r1 == [r EXCEPT !.gotResults = TRUE, !.results = results]
         IN IF Len(results) > 1 THEN UserDone(r1, a, AmbiguousAccount, NoUser)
            ELSE IF Len(results) = 0
            THEN [r1 EXCEPT !.uPc = "save", !.user = NewUser(r.primary),
                            !.nUserSave = @ + 1]
            ELSE UserDone(r1, a, NoErr, results[1])

\* ---- checkAuthorization ------------------------------------------------

\* The callback checkAuthorization was given: the authorization task.
AuthDone(r, a, err, authorization) ==
    AuthTask([r EXCEPT !.aPc = "done", !.aErr = err,
                       !.level = IF err = NoErr THEN authorization ELSE @],
             a, err, authorization)

\* checkOrgMembership up to gh.belongsToOrganization (lines 98-101).
checkOrgMembership(r) == [r EXCEPT !.aPc = "org", !.nOrg = @ + 1]

\* OrgLevel trusting the owner flag alone.
OrgLevelOwnerOnly(isMember, isAdmin) ==
    IF isAdmin THEN ADMIN
    ELSE IF isMember THEN ACCESS
    ELSE UNAUTHORIZED

\* The level checkOrgMembership derives (lines 105-107).
OrgLevel(isMember, isAdmin) ==
    IF isMember /\ isAdmin THEN ADMIN
    ELSE IF isMember /\ ~isAdmin THEN ACCESS
    ELSE UNAUTHORIZED

\* The callback of gh.belongsToOrganization (lines 101-108).
orgCallback(r, a, err, isMember, isAdmin) ==
    IF err # NoErr THEN AuthDone(r, a, err, Null)
    ELSE AuthDone([r EXCEPT !.orgAns = <<isMember, isAdmin>>], a, NoErr,
                  OrgLevel(isMember, isAdmin))

\* TeamLevel testing the access team first.
TeamLevelAccessFirst(results) ==
    IF results.access THEN ACCESS
    ELSE IF results.admin THEN ADMIN
    ELSE UNAUTHORIZED

\* The level checkTeamMembership derives from the two answers (lines 167-169).
TeamLevel(results) ==
    IF results.admin THEN ADMIN
    ELSE IF results.access THEN ACCESS
    ELSE UNAUTHORIZED

\* The final callback of the inner async.parallel {access, admin} (163-170).
teamsCallback(r, a, err) ==
    IF err # NoErr THEN AuthDone(r, a, err, Null)
    ELSE AuthDone(r, a, NoErr, TeamLevel(r.mRes))

\* A gh.belongsToTeam task of the inner async.parallel calls back.
TeamTask(r, a, teamType, err, isMember) ==
    LET r0 == [r EXCEPT !.bPc[teamType] = "done"]
    IN IF r0.mFired THEN r0
       ELSE IF err # NoErr THEN teamsCallback([r0 EXCEPT !.mFired = TRUE], a, err)
       ELSE LET r1 == [r0 EXCEPT !.mDone = @ + 1, !.mRes[teamType] = isMember]
            IN IF r1.mDone = 2
               THEN teamsCallback([r1 EXCEPT !.mFired = TRUE], a, NoErr)
               ELSE r1

\* Unresolved giving up only when both ids are missing.
UnresolvedBoth(ids) == ids.access = Null /\ ids.admin = Null

\* Does checkTeamMembership give up for want of a team id (line 156)?
Unresolved(ids) == ids.access = Null \/ ids.admin = Null

\* idsCallback taking a failed lookup for a team that was not found.
idsCallbackSwallow(r, a, err, ids) ==
    LET r1 == [r EXCEPT !.idsSeen = TRUE, !.resolved = ids]
    IN IF Unresolved(ids) THEN AuthDone(r1, a, NoErr, UNAUTHORIZED)
       ELSE [r1 EXCEPT !.aPc = "teams",
                       !.bPc = [t \in Roles |-> "pending"],
                       !.bArg = ids,
                       !.nBelongs = [t \in Roles |-> @[t] + 1]]

\* The callback checkTeamMembership gives ensureTeamIds (lines 152-162); ids
\* is the cache as this callback reads it.
idsCallback(r, a, err, ids) ==
    IF err # NoErr THEN AuthDone(r, a, err, Null)
    ELSE LET r1 == [r EXCEPT !.idsSeen = TRUE, !.resolved = ids]
         IN IF Unresolved(ids) THEN AuthDone(r1, a, NoErr, UNAUTHORIZED)
            ELSE [r1 EXCEPT !.aPc = "teams",
                            !.bPc = [t \in Roles |-> "pending"],
                            !.bArg = ids,
                            !.nBelongs = [t \in Roles |-> @[t] + 1]]

\* An ensureTeamId task of async.parallel in ensureTeamIds calls back.
IdsTask(r, a, teamType, err, ids) ==
    LET r0 == [r EXCEPT !.ePc[teamType] = "done"]
    IN IF r0.iFired THEN r0
       ELSE IF err # NoErr THEN idsCallback([r0 EXCEPT !.iFired = TRUE], a, err, ids)
       ELSE LET r1 == [r0 EXCEPT !.iDone = @ + 1]
            IN IF r1.iDone = 2
               THEN idsCallback([r1 EXCEPT !.iFired = TRUE], a, NoErr, ids)
               ELSE r1

\* config[teamType + 'TeamName'] (lines 119-120).
TeamName(cfg, teamType) ==
    IF teamType = "access" THEN cfg.accessTeamName ELSE cfg.adminTeamName

\* KnownOrUnnamed without the test of the configured name.
KnownOnly(cfg, ids, teamType) == ids[teamType] # Null

\* Does ensureTeamId answer without asking GitHub (lines 115-123)?
KnownOrUnnamed(cfg, ids, teamType) ==
    ids[teamType] # Null \/ TeamName(cfg, teamType) = NoName

\* ensureTeamId up to gh.findTeamWithName (lines 114-125).
ensureTeamId(r, a, teamType, cfg, ids) ==
    IF KnownOrUnnamed(cfg, ids, teamType)
    THEN IdsTask(r, a, teamType, NoErr, ids)
    ELSE [r EXCEPT !.ePc[teamType] = "pending", !.nFindTeam[teamType] = @ + 1]

\* ensureTeamIds: both tasks are started in order (lines 140-145).
ensureTeamIds(r, a, cfg, ids) ==
    ensureTeamId(ensureTeamId(r, a, "access", cfg, ids), a, "admin", cfg, ids)

\* checkTeamMembership up to ensureTeamIds (lines 149-152).
checkTeamMembership(r, a, cfg, ids) ==
    ensureTeamIds([r EXCEPT !.aPc = "ids"], a, cfg, ids)

\* Is the evaluator in team mode (line 177)?
TeamMode(cfg) == cfg.accessTeamName # NoName /\ cfg.adminTeamName # NoName

checkAuthorization(r, a, cfg, ids) ==
    IF TeamMode(cfg) THEN checkTeamMembership(r, a, cfg, ids)
    ELSE checkOrgMembership(r)

\* CacheAfter remembering that the team was not found.
CacheAfterAbsent(ids, teamType, id) ==
    [ids EXCEPT ![teamType] = IF id = Null THEN "absent" ELSE id]

\* CacheAfter storing whatever gh.findTeamWithName answered.
CacheAfterOverwrite(ids, teamType, id) == [ids EXCEPT ![teamType] = id]

\* The id a successful gh.findTeamWithName stores in the cache (128-133).
CacheAfter(ids, teamType, id) ==
    IF id = Null THEN ids ELSE [ids EXCEPT ![teamType] = id]

\* ---- the account store -------------------------------------------------

\* user.save() of a new document: it is inserted.
Insert(st, user) ==
    Append(st, [email |-> user.email, account_level |-> user.account_level,
                accounts |-> user.accounts])

\* user.save() after syncUserModel: the modified paths are written, the
\* level is set and a pushed identity is appended to the stored array.
Update(st, user, pushed) ==
    [st EXCEPT ![user.idx] =
        [@ EXCEPT !.account_level = user.account_level,
                  !.accounts = IF pushed
                               THEN Append(@, user.accounts[Len(user.accounts)])
                               ELSE @]]

\* ---- initial state -----------------------------------------------------

StoreEmailSeq == <<"a", "b">>
StoreEmails == Range(StoreEmailSeq)
Rank(e) == CHOOSE i \in DOMAIN StoreEmailSeq : StoreEmailSeq[i] = e
\* An account is an administrator linked to g1 (with an older token), or a
\* standard user never linked to GitHub.
InitAccounts ==
    [email : StoreEmails, account_level : {ADMIN}, accounts : {<<Identity("g1", 0)>>}]
    \cup [email : StoreEmails, account_level : {ACCESS}, accounts : {<<>>}]

\* Stores whose accounts have pairwise different emails.
InitStores ==
    {st \in UNION {[1 .. n -> InitAccounts] : n \in 0 .. MaxAccounts} :
        \A i, j \in DOMAIN st : i < j => Rank(st[i].email) < Rank(st[j].email)}

Configs == [accessTeamName : TeamNames \cup {NoName},
            adminTeamName : TeamNames \cup {NoName}]

\* After makeStrategyCallback: no attempt has started, the cache is empty.
Constructed ==
    /\ config \in Configs
    /\ teamIds = [t \in Roles |-> Null]
    /\ store \in InitStores
    /\ store0 = store
    /\ att = [a \in Attempts |-> Idle]

\* One authentication arrives.
Init == Constructed /\ arrivals \in [1 .. 1 -> ProfileIds]

\* The same person authenticates NumAttempts times and the attempts may
\* overlap; the evaluator is in organization-membership mode.
InitOrg == Constructed /\ ~TeamMode(config) /\ config.accessTeamName = NoName
                       /\ config.adminTeamName = NoName /\ arrivals = [a \in Attempts |-> "g1"]

\* ---- actions -----------------------------------------------------------

\* The strategy callback (lines 217-231): both tasks are started.
\* Attempts are numbered in the order they arrive.
Start(a) ==
    /\ att[a].pc = "idle"
    /\ arrivals # <<>>
    /\ \A b \in Attempts : b < a => att[b].pc # "idle"
    /\ arrivals' = Tail(arrivals)
    /\ LET r0 == [att[a] EXCEPT !.pc = "running", !.profile = Head(arrivals),
                                 !.uPc = "emails"]
       IN att' = [att EXCEPT ![a] = checkAuthorization(r0, a, config, teamIds)]
    /\ UNCHANGED <<config, teamIds, store, store0>>

\* gh.emails answers.
EmailsReply(a) ==
    /\ att[a].uPc = "emails"
    /\ \/ att' = [att EXCEPT ![a] = emailsCallback(att[a], a, TransportError, <<>>)]
       \/ \E emails \in EmailLists :
            att' = [att EXCEPT ![a] = emailsCallback(att[a], a, NoErr, emails)]
    /\ UNCHANGED <<config, teamIds, store, store0, arrivals>>

\* User.find answers.
FindReply(a) ==
    /\ att[a].uPc = "find"
    /\ \/ att' = [att EXCEPT ![a] = findCallback(att[a], a, TransportError, <<>>)]
       \/ att' = [att EXCEPT ![a] =
                     findCallback(att[a], a, NoErr, Find(store, att[a].addresses))]
    /\ UNCHANGED <<config, teamIds, store, store0, arrivals>>

\* user.save of the new User answers (lines 85-87).
UserSaveReply(a) ==
    /\ att[a].uPc = "save"
    /\ \/ /\ att' = [att EXCEPT ![a] =
                        UserDone(att[a], a, TransportError, att[a].user)]
          /\ store' = store
       \/ LET user == [att[a].user EXCEPT !.idx = Len(store) + 1]
          IN /\ store' = Insert(store, user)
             /\ att' = [att EXCEPT ![a] = UserDone(att[a], a, NoErr, user)]
    /\ UNCHANGED <<config, teamIds, store0, arrivals>>

\* gh.belongsToOrganization answers.
OrgReply(a) ==
    /\ att[a].aPc = "org"
    /\ \/ att' = [att EXCEPT ![a] = orgCallback(att[a], a, TransportError, FALSE, FALSE)]
       \/ \E isMember, isAdmin \in BOOLEAN :
            att' = [att EXCEPT ![a] = orgCallback(att[a], a, NoErr, isMember, isAdmin)]
    /\ UNCHANGED <<config, teamIds, store, store0, arrivals>>

\* gh.findTeamWithName answers (lines 125-136): an error, no such team
\* (for this caller), or the id of the team.
FindTeamReply(a, teamType) ==
    /\ att[a].ePc[teamType] = "pending"
    /\ \/ /\ att' = [att EXCEPT ![a] =
                        IdsTask([att[a] EXCEPT !.eAns[teamType] = TransportError],
                                a, teamType, TransportError, teamIds)]
          /\ teamIds' = teamIds
       \/ \E id \in {Null, GitHubTeamId(teamType)} :
            /\ teamIds' = CacheAfter(teamIds, teamType, id)
            /\ att' = [att EXCEPT ![a] =
                          IdsTask([att[a] EXCEPT !.eAns[teamType] = id],
                                  a, teamType, NoErr, teamIds')]
    /\ UNCHANGED <<config, store, store0, arrivals>>

\* gh.belongsToTeam answers.
BelongsReply(a, teamType) ==
    /\ att[a].bPc[teamType] = "pending"
    /\ \/ att' = [att EXCEPT ![a] =
                     TeamTask([att[a] EXCEPT !.bAns[teamType] = TransportError],
                              a, teamType, TransportError, FALSE)]
       \/ \E isMember \in BOOLEAN :
            att' = [att EXCEPT ![a] =
                       TeamTask([att[a] EXCEPT !.bAns[teamType] = ToString(isMember)],
                                a, teamType, NoErr, isMember)]
    /\ UNCHANGED <<config, teamIds, store, store0, arrivals>>

\* user.save of syncUserModel answers (lines 211-213).
SyncSaveReply(a) ==
    /\ att[a].pc = "sync"
    /\ \/ /\ att' = [att EXCEPT ![a] = Callback(att[a], TransportError, att[a].doc)]
          /\ store' = store
       \/ /\ store' = Update(store, att[a].doc, att[a].pushed)
          /\ att' = [att EXCEPT ![a] = Callback(att[a], NoErr, att[a].doc)]
    /\ UNCHANGED <<config, teamIds, store0, arrivals>>

\* What one attempt's collaborators may do next.
Reply(a) ==
    \/ EmailsReply(a)
    \/ FindReply(a)
    \/ UserSaveReply(a)
    \/ OrgReply(a)
    \/ \E t \in Roles : FindTeamReply(a, t)
    \/ \E t \in Roles : BelongsReply(a, t)
    \/ SyncSaveReply(a)

Next == \E a \in Attempts : Start(a) \/ Reply(a)

Spec == Init /\ [][Next]_vars

\* Every call to a collaborator is answered.
FairSpec == Spec /\ \A a \in Attempts : WF_vars(Reply(a))

\* The steps of organization-membership mode: no team is ever looked up.
ReplyOrg(a) ==
    \/ EmailsReply(a)
    \/ FindReply(a)
    \/ UserSaveReply(a)
    \/ OrgReply(a)
    \/ SyncSaveReply(a)

NextOrg == \E a \in Attempts : Start(a) \/ ReplyOrg(a)

OrgSpec == InitOrg /\ [][NextOrg]_vars

\* The same person authenticates NumAttempts times, each attempt after the
\* one before has completed; organization-membership mode.
InitSeq ==
    /\ Constructed
    /\ config.accessTeamName = NoName /\ config.adminTeamName = NoName
    /\ arrivals = [a \in Attempts |-> "g1"]

\* The strategy callback, invoked once the attempts before have completed.
StartAfter(a) ==
    /\ \A b \in Attempts : b < a => att[b].pc = "done"
    /\ Start(a)

NextSeq == \E a \in Attempts : StartAfter(a) \/ ReplyOrg(a)

SeqSpec == InitSeq /\ [][NextSeq]_vars

\* NumAttempts overlapping attempts in team-membership mode, seen while
\* their gh.emails calls are still unanswered: the steps of the evaluator.
InitTeam ==
    /\ Constructed
    /\ TeamMode(config)
    /\ store = <<>>
    /\ arrivals = [a \in Attempts |-> "g1"]

ReplyTeam(a) ==
    \/ \E t \in Roles : FindTeamReply(a, t)
    \/ \E t \in Roles : BelongsReply(a, t)

NextTeam == \E a \in Attempts : Start(a) \/ ReplyTeam(a)

TeamSpec == InitTeam /\ [][NextTeam]_vars

\* checkTeamMembership called on its own (lines 149-172), whatever team names
\* are configured.
CheckTeams(a) ==
    /\ att[a].pc = "idle"
    /\ arrivals # <<>>
    /\ \A b \in Attempts : b < a => att[b].pc # "idle"
    /\ arrivals' = Tail(arrivals)
    /\ LET r0 == [att[a] EXCEPT !.pc = "running", !.profile = Head(arrivals)]
       IN att' = [att EXCEPT ![a] = checkTeamMembership(r0, a, config, teamIds)]
    /\ UNCHANGED <<config, teamIds, store, store0>>

InitCache ==
    /\ Constructed
    /\ store = <<>>
    /\ arrivals = [a \in Attempts |-> "g1"]

NextCache == \E a \in Attempts : CheckTeams(a) \/ ReplyTeam(a)

CacheSpec == InitCache /\ [][NextCache]_vars

\* ---- properties ---------------------------------------------------------

BranchesDone(r) == r.uPc = "done" /\ r.aPc = "done"
BothSucceeded(r) == BranchesDone(r) /\ r.uErr = NoErr /\ r.aErr = NoErr

\* The account of the store a document was read from or saved as.
Stored(user) ==
    [idx |-> user.idx, email |-> store[user.idx].email,
     account_level |-> store[user.idx].account_level,
     accounts |-> store[user.idx].accounts]

\* C1: when both branches succeed and the derived level is unauthorized, the
\* completion callback has been given AuthorizationDenied, syncUserModel has
\* saved nothing, and the resolved account still has the level and the linked
\* identities it was resolved with.
C1_UnauthorizedRejected ==
    \A a \in Attempts :
        LET r == att[a]
        IN (BothSucceeded(r) /\ r.level = UNAUTHORIZED) =>
              /\ r.pc = "done" /\ r.cbCount = 1
              /\ r.cbErr = AuthorizationDenied
              /\ r.nSyncSave = 0
              /\ r.user.idx \in DOMAIN store
              /\ Stored(r.user) = r.user

C1_Witness ==
    \E a \in Attempts :
        /\ BothSucceeded(att[a]) /\ att[a].level = UNAUTHORIZED
        /\ att[a].cbErr = AuthorizationDenied
        /\ att[a].user.accounts # <<>>

\* C2: the completion callback is never invoked twice, and once an attempt
\* has started it is eventually invoked, whatever the outcomes of the two
\* branches and the order they finish in.
C2_ExactlyOnce ==
    /\ [](\A a \in Attempts : att[a].cbCount <= 1)
    /\ \A a \in Attempts : (att[a].pc # "idle") ~> (att[a].cbCount = 1)

C2_Witness ==
    \E a \in Attempts :
        /\ BranchesDone(att[a]) /\ att[a].uErr # NoErr /\ att[a].aErr # NoErr
        /\ att[a].cbCount = 1

\* C3: no two accounts of the store have the same email.
C3_UniqueEmail ==
    \A i, j \in DOMAIN store : i # j => store[i].email # store[j].email

ZeroMatches(r) == r.gotResults /\ Len(r.results) = 0

\* C4 as stated: once the resolver has finished for a profile matching no
\* account, one account has been persisted, with the primary address.
C4_AlwaysPersisted ==
    \A a \in Attempts :
        (ZeroMatches(att[a]) /\ att[a].uPc = "done") =>
            /\ Len(store) = Len(store0) + 1
            /\ store[Len(store)].email = att[a].primary

\* C4 amended: for a profile matching no account the resolver creates one
\* account, with the primary address and no linked identity, and saves it
\* once; it is in the store when the save succeeds, and when the save fails
\* resolution fails with the store's error and the store is as it was.
C4_CreatesOne ==
    \A a \in Attempts :
        LET r == att[a]
        IN ZeroMatches(r) =>
              /\ r.nUserSave = 1
              /\ r.uPc \in {"save", "done"}
              /\ r.uPc = "save" => r.user = NewUser(r.primary) /\ store = store0
              /\ (r.uPc = "done" /\ r.uErr = NoErr) =>
                    /\ Len(store) = Len(store0) + 1
                    /\ r.user = [NewUser(r.primary) EXCEPT !.idx = Len(store)]
                    /\ store[Len(store)].email = r.primary
                    /\ r.nSyncSave = 0 => store[Len(store)].accounts = <<>>
              /\ (r.uPc = "done" /\ r.uErr # NoErr) =>
                    r.uErr = TransportError /\ store = store0

C4_Witness ==
    \E a \in Attempts :
        /\ ZeroMatches(att[a]) /\ att[a].uPc = "done" /\ att[a].uErr = NoErr
        /\ Len(att[a].addresses) = 2 /\ att[a].primary # att[a].addresses[1]
        /\ store[Len(store)].email = att[a].primary

Ambiguous(r) == r.gotResults /\ Len(r.results) >= 2

\* C5 as stated: when the profile matches two accounts, the completion
\* callback is given AmbiguousAccount.
C5_AlwaysAmbiguousAccount ==
    \A a \in Attempts :
        Ambiguous(att[a]) => att[a].cbCount = 1 /\ att[a].cbErr = AmbiguousAccount

\* C5 amended: when the profile matches two or more accounts the resolver
\* fails with AmbiguousAccount and the attempt has failed, with
\* AmbiguousAccount unless the evaluator had failed before, and then with the
\* evaluator's error; no account is created or changed and syncUserModel
\* saves nothing.
C5_AmbiguousFails ==
    \A a \in Attempts :
        LET r == att[a]
        IN Ambiguous(r) =>
              /\ r.uPc = "done" /\ r.uErr = AmbiguousAccount
              /\ r.pc = "done" /\ r.cbCount = 1
              /\ \/ r.cbErr = AmbiguousAccount
                 \/ r.aErr # NoErr /\ r.cbErr = r.aErr
              /\ r.nUserSave = 0 /\ r.nSyncSave = 0
              /\ store = store0

C5_Witness ==
    \E a \in Attempts :
        /\ Ambiguous(att[a]) /\ att[a].cbErr = AmbiguousAccount
        /\ att[a].aPc = "done" /\ att[a].level = ADMIN

\* C6: when the list of emails has no verified entry, the resolver fails with
\* NoVerifiedEmail, User.find is never called and no account is created.
C6_NoVerifiedEmail ==
    \A a \in Attempts :
        LET r == att[a]
        IN (r.gotEmails /\ r.noVerified) =>
              /\ r.uPc = "done" /\ r.uErr = NoVerifiedEmail
              /\ r.nFind = 0 /\ r.nUserSave = 0
              /\ Len(store) = Len(store0)

C6_Witness ==
    \E a \in Attempts :
        /\ att[a].gotEmails /\ att[a].noVerified
        /\ att[a].uErr = NoVerifiedEmail /\ att[a].cbErr = NoVerifiedEmail

OneMatch(r) == r.gotResults /\ Len(r.results) = 1

\* C7: when the profile matches exactly one account, the resolver saves
\* nothing, creates no account and returns the matching account as it is in
\* the store.
C7_ExistingReturned ==
    \A a \in Attempts :
        LET r == att[a]
        IN OneMatch(r) =>
              /\ r.uPc = "done" /\ r.uErr = NoErr
              /\ r.nUserSave = 0
              /\ Len(store) = Len(store0)
              /\ r.user.idx \in DOMAIN store0
              /\ r.user.email = store0[r.user.idx].email
              /\ r.user.email \in Range(r.addresses)
              /\ r.user.account_level = store0[r.user.idx].account_level
              /\ r.user.accounts = store0[r.user.idx].accounts
              /\ r.nSyncSave = 0 => store = store0

C7_Witness ==
    \E a \in Attempts :
        /\ OneMatch(att[a]) /\ att[a].uPc = "done"
        /\ Len(store0) = 2 /\ att[a].user.idx = 2

\* C8: in organization-membership mode the level is determined by the answer
\* (isMember, isAdmin): (true, true) is admin, (true, false) is standard and
\* (false, any) is unauthorized.
C8_OrgLevel ==
    \A a \in Attempts :
        LET r == att[a]
        IN r.orgAns # <<>> =>
              /\ ~TeamMode(config)
              /\ r.aPc = "done" /\ r.aErr = NoErr
              /\ r.orgAns = <<TRUE, TRUE>> => r.level = ADMIN
              /\ r.orgAns = <<TRUE, FALSE>> => r.level = ACCESS
              /\ r.orgAns[1] = FALSE => r.level = UNAUTHORIZED

C8_Witness ==
    \E a \in Attempts : att[a].orgAns = <<FALSE, TRUE>> /\ att[a].level = UNAUTHORIZED

\* C9: in team-membership mode, when a team id is missing after the ids were
\* resolved, the level is unauthorized and gh.belongsToTeam is not called.
C9_UnresolvedUnauthorized ==
    \A a \in Attempts :
        LET r == att[a]
        IN (r.idsSeen /\ \E t \in Roles : r.resolved[t] = Null) =>
              /\ TeamMode(config)
              /\ r.aPc = "done" /\ r.aErr = NoErr /\ r.level = UNAUTHORIZED
              /\ \A t \in Roles : r.nBelongs[t] = 0 /\ r.bPc[t] = "idle"

C9_Witness ==
    \E a \in Attempts :
        /\ att[a].idsSeen
        /\ att[a].resolved.access # Null /\ att[a].resolved.admin = Null
        /\ att[a].level = UNAUTHORIZED

\* C10: in team-membership mode with both ids resolved the level is admin
\* when the caller belongs to the admin team, else standard when the caller
\* belongs to the access team, else unauthorized.
C10_TeamLevel ==
    \A a \in Attempts :
        LET r == att[a]
        IN (/\ r.idsSeen
            /\ \A t \in Roles : r.resolved[t] # Null
            /\ \A t \in Roles : r.bAns[t] \in {"TRUE", "FALSE"}) =>
              /\ r.aPc = "done" /\ r.aErr = NoErr
              /\ r.level = IF r.bAns.admin = "TRUE" THEN ADMIN
                           ELSE IF r.bAns.access = "TRUE" THEN ACCESS
                           ELSE UNAUTHORIZED

C10_Witness ==
    \E a \in Attempts :
        /\ att[a].bAns.admin = "TRUE" /\ att[a].bAns.access = "FALSE"
        /\ att[a].level = ADMIN

Synced(r) == r.pc = "done" /\ r.cbErr = NoErr

\* C11: when the level is not unauthorized and the resolved account has no
\* identity for (github, profile id), exactly one identity is appended; a
\* later run for the same profile and account appends none and leaves the
\* identities as the run before left them.
C11_LinkedOnce ==
    /\ \A a \in Attempts :
          LET r == att[a]
          IN Synced(r) =>
                /\ r.cbUser.idx = r.user.idx
                /\ store[r.user.idx].accounts = r.cbUser.accounts
                /\ (\A i \in DOMAIN r.user.accounts :
                        r.user.accounts[i].id # r.profile) =>
                      r.cbUser.accounts =
                          Append(r.user.accounts, Identity(r.profile, a))
    /\ \A a, b \in Attempts :
          (/\ a < b /\ Synced(att[a]) /\ Synced(att[b])
           /\ att[a].user.idx = att[b].user.idx
           /\ att[a].profile = att[b].profile) =>
              /\ ~att[b].pushed
              /\ att[b].cbUser.accounts = att[a].cbUser.accounts

C11_Witness ==
    \E a, b \in Attempts :
        /\ a < b /\ Synced(att[a]) /\ Synced(att[b])
        /\ att[a].user.idx = att[b].user.idx
        /\ att[a].pushed /\ ~att[b].pushed
        /\ Len(store[att[a].user.idx].accounts) = 1

\* C12: a role without a configured team name is never looked up with
\* gh.findTeamWithName and is always resolved as absent, on the first call
\* and on every later one.
C12_UnnamedNeverLookedUp ==
    \A t \in Roles :
        TeamName(config, t) = NoName =>
            /\ teamIds[t] = Null
            /\ \A a \in Attempts :
                  /\ att[a].nFindTeam[t] = 0
                  /\ att[a].ePc[t] # "pending"
                  /\ att[a].pc # "idle" => att[a].ePc[t] = "done"
                  /\ att[a].idsSeen => att[a].resolved[t] = Null

C12_Witness ==
    /\ config.accessTeamName # NoName /\ config.adminTeamName = NoName
    /\ att[1].eAns.access = GitHubTeamId("access")
    /\ \E a \in Attempts : a > 1 /\ att[a].idsSeen /\ att[a].ePc.admin = "done"

\* C13: when a branch fails the attempt has failed with an error of a branch,
\* syncUserModel is not invoked and no user is delivered; what the
\* completion callback was given never changes afterwards, so the first
\* error stands whatever the other branch does later.
C13_FirstErrorWins ==
    /\ [](\A a \in Attempts :
            LET r == att[a]
            IN (r.uErr # NoErr \/ r.aErr # NoErr) =>
                  /\ r.pc = "done" /\ r.cbCount = 1
                  /\ r.cbErr \in {r.uErr, r.aErr} \ {NoErr}
                  /\ r.cbUser = NoUser
                  /\ r.nSyncSave = 0 /\ r.doc = NoUser)
    /\ [][\A a \in Attempts :
            att[a].cbCount = 1 =>
               /\ att'[a].cbCount = 1
               /\ att'[a].cbErr = att[a].cbErr
               /\ att'[a].cbUser = att[a].cbUser]_vars

C13_Witness ==
    \E a \in Attempts :
        /\ att[a].uErr = AmbiguousAccount /\ att[a].cbErr = AmbiguousAccount
        /\ att[a].aPc = "done" /\ att[a].level = ADMIN

\* C14: no account has two linked identities with the same provider and id.
C14_OneIdentityPerPair ==
    \A i \in DOMAIN store :
        \A j, k \in DOMAIN store[i].accounts :
            j # k => \/ store[i].accounts[j].provider # store[i].accounts[k].provider
                     \/ store[i].accounts[j].id # store[i].accounts[k].id

\* gh.findTeamWithName answered that the team of the role does not exist.
NotFound(r, t) == r.ePc[t] = "done" /\ r.nFindTeam[t] = 1 /\ r.eAns[t] = Null

Starts(a) == att[a].pc = "idle" /\ att'[a].pc # "idle"

\* C15 as stated: once a lookup of a role has answered team-not-found, an
\* attempt that starts issues no gh.findTeamWithName for that role.
C15_AbsentIsCached ==
    [][\A a \in Attempts, t \in Roles :
          (Starts(a) /\ \E b \in Attempts : NotFound(att[b], t)) =>
              att'[a].nFindTeam[t] = 0]_vars

\* C15 amended: a team-not-found answer leaves the cache as it was, and an
\* attempt that starts while the entry of a role is unpopulated looks the
\* team up again.
C15_NotFoundNotCached ==
    [][\A a \in Attempts, t \in Roles :
          /\ (~NotFound(att[a], t) /\ NotFound(att'[a], t)) => teamIds' = teamIds
          /\ (Starts(a) /\ teamIds[t] = Null) => att'[a].nFindTeam[t] = 1]_vars

C15_Witness ==
    \E a, b \in Attempts, t \in Roles :
        /\ a < b /\ NotFound(att[a], t) /\ att[a].aPc = "done"
        /\ teamIds[t] = Null
        /\ att[b].nFindTeam[t] = 1 /\ att[b].ePc[t] = "pending"

\* C16: a cache entry that holds a team id keeps that id, and an attempt that
\* starts afterwards issues no gh.findTeamWithName for the role, also when
\* several attempts have looked the role up at the same time.
C16_CacheStable ==
    [][\A t \in Roles :
          teamIds[t] # Null =>
              /\ teamIds'[t] = teamIds[t]
              /\ \A a \in Attempts : Starts(a) => att'[a].nFindTeam[t] = 0]_vars

C16_Witness ==
    \E t \in Roles :
        /\ teamIds[t] = GitHubTeamId(t)
        /\ att[1].nFindTeam[t] = 1 /\ att[1].eAns[t] = GitHubTeamId(t)
        /\ \E a \in Attempts : a > 1 /\ att[a].nFindTeam[t] = 1 /\ NotFound(att[a], t)

LookupFailed(r, t) == r.eAns[t] = TransportError

\* C17: a lookup that fails with a transport error fails the evaluation with
\* that error and leaves the cache as it was: the entry stays unpopulated
\* unless another lookup was answered with the id, and an attempt that starts
\* while it is unpopulated looks the team up again.
C17_LookupErrorNotCached ==
    /\ [](\A a \in Attempts, t \in Roles :
            LookupFailed(att[a], t) =>
               /\ att[a].aPc = "done" /\ att[a].aErr = TransportError
               /\ att[a].level = Null
               /\ att[a].cbCount = 1 /\ att[a].cbErr = TransportError
               /\ (\A b \in Attempts : att[b].eAns[t] # GitHubTeamId(t)) =>
                     teamIds[t] = Null)
    /\ [][\A a \in Attempts, t \in Roles :
            /\ (~LookupFailed(att[a], t) /\ LookupFailed(att'[a], t)) =>
                  teamIds' = teamIds
            /\ (Starts(a) /\ teamIds[t] = Null
                          /\ \E b \in Attempts : LookupFailed(att[b], t)) =>
                  att'[a].nFindTeam[t] = 1]_vars

C17_Witness ==
    \E a, b \in Attempts, t \in Roles :
        /\ a < b /\ LookupFailed(att[a], t) /\ att[a].aPc = "done"
        /\ att[b].nFindTeam[t] = 1 /\ att[b].eAns[t] = GitHubTeamId(t)
        /\ teamIds[t] = GitHubTeamId(t)

\* C18: when an attempt is done the account delivered and the account in the
\* store have the level derived in this attempt, whatever it was before.
C18_LevelOverwritten ==
    \A a \in Attempts :
        LET r == att[a]
        IN Synced(r) =>
              /\ r.cbCount = 1
              /\ r.aPc = "done" /\ r.level \in {ACCESS, ADMIN}
              /\ r.cbUser.account_level = r.level
              /\ r.cbUser.idx = r.user.idx
              /\ r.cbUser.idx \in DOMAIN store
              /\ store[r.cbUser.idx].account_level = r.level

C18_Witness ==
    \E a \in Attempts :
        /\ Synced(att[a])
        /\ att[a].user.account_level = ADMIN /\ att[a].level = ACCESS
        /\ store[att[a].user.idx].account_level = ACCESS

\* What GitHub answers one caller: the id of each team or Null (not found)
\* and the caller's membership; a team is visible to its members.
AnswerSheets ==
    {s \in [find : [Roles -> {Null, "T1", "T2"}], belongs : [Roles -> BOOLEAN]] :
        \A t \in Roles : /\ s.find[t] \in {Null, GitHubTeamId(t)}
                         /\ s.belongs[t] => s.find[t] # Null}

\* The level checkTeamMembership derives for a caller when the cache is
\* empty and no other attempt runs (lines 149-172).
EmptyCacheLevel(s) ==
    LET ids0 == [t \in Roles |-> Null]
        ids == CacheAfter(CacheAfter(ids0, "access", s.find.access),
                          "admin", s.find.admin)
    IN IF Unresolved(ids) THEN UNAUTHORIZED ELSE TeamLevel(s.belongs)

\* The answers an attempt received are those of the sheet.
Agrees(r, s) ==
    \A t \in Roles :
        /\ (r.ePc[t] = "done" /\ r.nFindTeam[t] = 1) => r.eAns[t] = s.find[t]
        /\ r.bAns[t] # Null => r.bAns[t] = ToString(s.belongs[t])

\* C19: the level an attempt derives in team-membership mode is the level
\* the same answers of GitHub give from an empty cache, whatever the cache
\* held and whatever other attempts did to it.
C19_LevelIgnoresCache ==
    \A a \in Attempts :
        (att[a].aPc = "done" /\ att[a].aErr = NoErr) =>
            \A s \in AnswerSheets :
                Agrees(att[a], s) => att[a].level = EmptyCacheLevel(s)

\* C20: an attempt that has failed leaves the store as it was.
C20_FailedLeavesStore ==
    \A a \in Attempts :
        (att[a].pc = "done" /\ att[a].cbErr # NoErr) => store = store0

====
